---- MODULE Spec2Model ----
(***************************************************************************)
(* Model of opengl-perfomance-test.                                        *)
(*   RenderThread (src/multi_thread_test/src/render_thread.cpp) with its   *)
(*   two threads, the main thread that calls the public interface and the  *)
(*   worker thread that runs threadFunction: specifications Spec, FairSpec *)
(*   The size encoding of an upload task on arbitrary sizes: SizeSpec      *)
(*   PerformanceMonitor (src/shared/src/performance_monitor.cpp):          *)
(*   MonitorSpec                                                           *)
(*   TerrainGenerator (src/shared/src/terrain_generator.cpp): TerrainSpec  *)
(*   MultiThreadApp (src/multi_thread_test/src/multi_thread_app.cpp), the  *)
(*   application that drives a RenderThread from its main loop: AppSpec    *)
(* Every statement that touches state shared by the two threads is a step  *)
(* of its own; a std::mutex is a variable naming its owner and a           *)
(* std::condition_variable is the set of threads blocked in wait().        *)
(***************************************************************************)
EXTENDS Integers, Sequences, FiniteSets, TLC

\* ------------------------------------------------------------------------
\* Bounds of the model
\* ------------------------------------------------------------------------
\* number of submitTask / submitPatchUpload calls explored
MaxTasks == 2
\* number of successful start() calls explored
MaxStarts == 2
\* number of auxiliary contexts glfwCreateWindow may hand out
MaxCtx == 1
\* number of terrain patches whose upload may be submitted
NumPatches == 1
\* number of calls on a PerformanceMonitor explored
MaxCalls == 3
\* number of frames of the application's main loop explored
MaxFrames == 3
\* largest measured frame time, in milliseconds
MaxFrameTime == 1
\* largest terrain grid size (in absolute value) handed to TerrainGenerator
MaxGridSize == 16
\* largest patch count the configuration asks for
MaxPatchCount == 4
\* number of shuffles of the permutation table explored, less one
MaxShuffle == 2

\* ------------------------------------------------------------------------
\* RenderTask (render_thread.h)
\* ------------------------------------------------------------------------
\* half of the width of RenderTask::dataSize, 32 in the source, scaled
HalfBits == 3

PatchIds == 0 .. (NumPatches - 1)
CtxIds == 1 .. MaxCtx

RECURSIVE Pow2(_)
Pow2(n) == IF n = 0 THEN 1 ELSE 2 * Pow2(n - 1)

\* uint64_t / size_t, scaled to 2 * HalfBits bits
WordMod == Pow2(2 * HalfBits)
\* the mask 0xFFFFFFFF, scaled to HalfBits bits
LowMask == Pow2(HalfBits) - 1

RECURSIVE BitOr(_, _)
BitOr(a, b) ==
    IF a = 0 THEN b
    ELSE IF b = 0 THEN a
    ELSE (IF (a % 2 = 1) \/ (b % 2 = 1) THEN 1 ELSE 0) + 2 * BitOr(a \div 2, b \div 2)

RECURSIVE BitAnd(_, _)
BitAnd(a, b) ==
    IF a = 0 \/ b = 0 THEN 0
    ELSE (IF (a % 2 = 1) /\ (b % 2 = 1) THEN 1 ELSE 0) + 2 * BitAnd(a \div 2, b \div 2)

\* a void* : which buffer it points to, or an integer cast to a pointer
NullPtr == [kind |-> "null", of |-> 0]
VertexPtr(p) == [kind |-> "vertices", of |-> p]
IndexPtr(p) == [kind |-> "indices", of |-> p]
IntPtr(n) == [kind |-> "int", of |-> n]

\* RenderTask(Type t = RENDER_PATCH, int id = -1, void* d = nullptr, size_t s = 0);
\* uid is the identity of the submission (its position in the submission order)
RenderTask(t, id, d, s, u) ==
    [type |-> t, patchId |-> id, data |-> d, dataSize |-> s, uid |-> u]

NoTask == RenderTask("NONE", -1, NullPtr, 0, 0)

\* the task kinds handed to submitTask: a default-constructed RenderTask
TaskTypes == {"RENDER_PATCH"}

\* patches[i].vertices.size() * sizeof(TerrainVertex), scaled
PatchVertexBytes(p) == 2 * (p + 1)
\* patches[i].indices.size() * sizeof(unsigned int), scaled
PatchIndexBytes(p) == p + 1

\* (static_cast<uint64_t>(indexSize) << 32) | static_cast<uint64_t>(vertexSize)
EncodeSize(vertexSize, indexSize) ==
    BitOr((indexSize * Pow2(HalfBits)) % WordMod, vertexSize % WordMod)

\* task.dataSize & 0xFFFFFFFF
DecodeVertexSize(dataSize) == BitAnd(dataSize, LowMask)
\* task.dataSize >> 32
DecodeIndexSize(dataSize) == dataSize \div Pow2(HalfBits)

\* ------------------------------------------------------------------------
\* State
\* ------------------------------------------------------------------------
VARIABLES
    workerContext_,      \* GLFWwindow* workerContext_ ; 0 is nullptr
    contextInitialized_, \* bool contextInitialized_
    isRunning_,          \* std::atomic<bool> isRunning_
    shouldStop_,         \* std::atomic<bool> shouldStop_
    processedTasks_,     \* std::atomic<size_t> processedTasks_
    taskQueue_,          \* std::queue<RenderTask> taskQueue_
    queueMutex_,         \* owner of queueMutex_ : "free", "main", "worker"
    completionMutex_,    \* owner of completionMutex_
    joinable,            \* workerThread_.joinable()
    mainpc,              \* position of the main thread
    workerpc,            \* position of the worker thread, "none" when there is none
    task,                \* the worker's local  RenderTask task
    dtor,                \* the main thread is inside ~RenderThread
    ctxDestroyed,        \* per context: number of glfwDestroyWindow calls on it
    ctxCreated,          \* number of contexts glfwCreateWindow has returned
    currentCtx,          \* context current on the worker thread, 0 when none
    uploads,             \* arguments of every uploadPatchData call, in order
    submitted,           \* history: every task submitted, in submission order
    handed,              \* history: every task handed to processTask, in order
    threads,             \* history: worker threads spawned and not yet joined
    starts,              \* history: number of start() calls that spawned a thread
    lastRet              \* history: the call that returned last ("stop", "initialize:true",
                         \* "initialize:false", "other"), "none" once the next call has
                         \* executed its first statement

\* the size encoding of an upload task, followed on one task (SizeSpec)
VARIABLES
    sizepc,              \* "unused", "args", "queued", "done"
    argSizes,            \* vertexSize and indexSize handed to submitPatchUpload
    sizeTask,            \* the RenderTask submitPatchUpload pushed
    sizeUpload           \* the uploadPatchData call processTask made for it

sizevars == <<sizepc, argSizes, sizeTask, sizeUpload>>

\* PerformanceMonitor (MonitorSpec)
VARIABLES
    metrics_,            \* PerformanceMetrics metrics_
    frameTimeHistory_,   \* std::vector<double> frameTimeHistory_
    measured,            \* history: the frame times measured by endFrame() since
                         \* construction or the last reset(), in order
    calls                \* history: number of calls the client of MonitorSpec has made

monitorvars == <<metrics_, frameTimeHistory_, measured, calls>>

\* TerrainGenerator (TerrainSpec)
VARIABLES
    gridSize_,           \* int gridSize_
    patches_,            \* std::vector<TerrainPatch> patches_
    permutation_,        \* std::vector<int> permutation_, indexed from 0
    patchCount,          \* the patch count the configuration asks for (--patches)
    terrainpc            \* "constructed", "generated" once generateTerrain() has run

terrainvars == <<gridSize_, patches_, permutation_, patchCount, terrainpc>>

\* MultiThreadApp (AppSpec)
VARIABLES
    useMultiThreading_,  \* bool useMultiThreading_
    patchesUploaded_,    \* std::atomic<int> patchesUploaded_
    shouldClose,         \* glfwWindowShouldClose(window_)
    apppc,               \* position of the application between its calls on
                         \* renderThread_, "unused" when there is no application
    nextPatch,           \* submitPatchUploadWork(): the loop variable i
    draws                \* history: per render() call, the mode it ran in, the patches
                         \* the worker had uploaded and the patches it drew

appvars == <<useMultiThreading_, patchesUploaded_, shouldClose, apppc, nextPatch, draws>>

\* the state of the components other than RenderThread
extvars == <<sizevars, monitorvars, terrainvars, appvars>>

progvars == <<workerContext_, contextInitialized_, isRunning_, shouldStop_,
              processedTasks_, taskQueue_, queueMutex_, completionMutex_, joinable>>

\* the state of RenderThread and of its two threads
rtvars == <<workerContext_, contextInitialized_, isRunning_, shouldStop_,
            processedTasks_, taskQueue_, queueMutex_, completionMutex_, joinable,
            mainpc, workerpc, task, dtor, ctxDestroyed, ctxCreated, currentCtx,
            uploads, submitted, handed, threads, starts, lastRet>>

vars == <<rtvars, extvars>>

\* no size encoding is being followed
SizeUnused ==
    /\ sizepc = "unused"
    /\ argSizes = [vertexSize |-> 0, indexSize |-> 0]
    /\ sizeTask = NoTask
    /\ sizeUpload = << >>

\* RenderThread::RenderThread()
RenderThreadInit ==
    /\ workerContext_ = 0
    /\ contextInitialized_ = FALSE
    /\ isRunning_ = FALSE
    /\ shouldStop_ = FALSE
    /\ processedTasks_ = 0
    /\ taskQueue_ = << >>
    /\ queueMutex_ = "free"
    /\ completionMutex_ = "free"
    /\ joinable = FALSE
    /\ mainpc = "idle"
    /\ workerpc = "none"
    /\ task = NoTask
    /\ dtor = FALSE
    /\ ctxDestroyed = [c \in CtxIds |-> 0]
    /\ ctxCreated = 0
    /\ currentCtx = 0
    /\ uploads = << >>
    /\ submitted = << >>
    /\ handed = << >>
    /\ threads = 0
    /\ starts = 0
    /\ lastRet = "none"

\* static constexpr size_t FRAME_HISTORY_SIZE = 60, scaled
FRAME_HISTORY_SIZE == 2

\* the width of int, 32 in the source, scaled
IntBits == 7
\* INT_MAX and INT_MIN
IntMax == Pow2(IntBits - 1) - 1
IntMin == 0 - Pow2(IntBits - 1)
IntRange == IntMin .. IntMax

\* a double that is the quotient of two integers
Ratio(n, d) == [num |-> n, den |-> d]

\* PerformanceMetrics(): the default member initializers
PerformanceMetrics ==
    [fps |-> Ratio(0, 1), frameTime |-> Ratio(0, 1),
     minFrameTime |-> 1000, maxFrameTime |-> 0,
     drawCalls |-> 0, trianglesDrawn |-> 0, verticesDrawn |-> 0,
     memoryUsage |-> 0, vboMemory |-> 0, textureMemory |-> 0,
     lastFrameTime |-> "constructed"]

\* PerformanceMonitor::PerformanceMonitor() : frameTimeHistory_(FRAME_HISTORY_SIZE)
\* the vector is constructed with FRAME_HISTORY_SIZE elements of value 0.0
PerformanceMonitorInit ==
    /\ metrics_ = PerformanceMetrics
    /\ frameTimeHistory_ = [i \in 1 .. FRAME_HISTORY_SIZE |-> 0]
    /\ measured = << >>
    /\ calls = 0

\* permutation_.resize(256), the size of the table before it is duplicated
PermutationSize == 256
\* TerrainGenerator(int gridSize = 256, float patchSize = 1.0f, float heightScale = 20.0f)
DefaultGridSize == 256
patchSize_ == 1
heightScale_ == 20
\* generatePatches(int patchCount = 64);   int patchCount = 64; (main.cpp)
DefaultPatchCount == 64

\* a result of initializeNoise(): a permutation of 0 .. 255 (shuffle number s of
\* the shuffles explored), followed by a copy of itself
Shuffled(s) ==
    [i \in 0 .. (2 * PermutationSize - 1) |->
        ((2 * s + 1) * (i % PermutationSize) + s) % PermutationSize]

\* TerrainGenerator::TerrainGenerator(gridSize, patchSize, heightScale), with
\* shuffle number s drawn by initializeNoise(); count is the configured patch count
TerrainGeneratorInit(gridSize, s, count) ==
    /\ gridSize_ = gridSize
    /\ permutation_ = Shuffled(s)
    /\ patches_ = << >>
    /\ patchCount = count
    /\ terrainpc = "constructed"

\* no terrain is being generated: a default TerrainGenerator
TerrainUnused == TerrainGeneratorInit(DefaultGridSize, 0, DefaultPatchCount)

\* MultiThreadApp::MultiThreadApp(): useMultiThreading_(true), patchesUploaded_(0)
MultiThreadAppInit ==
    /\ useMultiThreading_ = TRUE
    /\ patchesUploaded_ = 0
    /\ shouldClose = FALSE
    /\ nextPatch = 0
    /\ draws = << >>

\* no application is running
AppUnused ==
    /\ MultiThreadAppInit
    /\ apppc = "unused"

\* a RenderThread has been constructed; the other components are not in use
Init ==
    /\ RenderThreadInit
    /\ SizeUnused
    /\ PerformanceMonitorInit
    /\ TerrainUnused
    /\ AppUnused

\* ------------------------------------------------------------------------
\* Condition variables
\* ------------------------------------------------------------------------
\* faulty variant of NotifyQueue: the notification is lost
NotifyQueueLost(pc) == pc

\* queueCondition_.notify_one(): the worker is the only thread that waits on it
NotifyQueue(pc) == IF pc = "waiting" THEN "wake" ELSE pc

\* faulty variant of NotifyCompletion: the notification is lost
NotifyCompletionLost(pc) == pc

\* completionCondition_.notify_all(): the main thread is the only waiter
NotifyCompletion(pc) == IF pc = "wfc_blocked" THEN "wfc_wake" ELSE pc

\* the position the main thread is left in when a call returns
Returned == IF dtor THEN "destroyed" ELSE "idle"

\* ------------------------------------------------------------------------
\* Main thread: the public interface of RenderThread
\* ------------------------------------------------------------------------
Ops == {"initialize", "start", "stop", "submitTask", "submitPatchUpload",
        "waitForCompletion", "destructor"}

\* the main thread calls a member function of RenderThread (or destroys it)
Call(op) ==
    /\ mainpc = "idle"
    /\ op \in {"submitTask", "submitPatchUpload"} => Len(submitted) < MaxTasks
    /\ op = "start" => (isRunning_ \/ starts < MaxStarts)
    /\ mainpc' = IF op = "destructor" THEN "stop" ELSE op
    /\ dtor' = (op = "destructor")
    /\ UNCHANGED <<progvars, workerpc, task, ctxDestroyed, ctxCreated, currentCtx,
                   uploads, submitted, handed, threads, starts, lastRet>>
    /\ UNCHANGED extvars

\* bool RenderThread::initialize(GLFWwindow* sharedContext);
\* ok: glfwCreateWindow returned a window
Initialize(ok) ==
    /\ mainpc = "initialize"
    /\ ok => (isRunning_ \/ ctxCreated < MaxCtx)
    /\ IF isRunning_
       THEN /\ lastRet' = "initialize:false"
            /\ UNCHANGED <<workerContext_, ctxCreated>>
       ELSE IF ok
       THEN /\ workerContext_' = ctxCreated + 1
            /\ ctxCreated' = ctxCreated + 1
            /\ lastRet' = "initialize:true"
       ELSE /\ workerContext_' = 0
            /\ lastRet' = "initialize:false"
            /\ UNCHANGED ctxCreated
    /\ mainpc' = Returned
    /\ UNCHANGED <<contextInitialized_, isRunning_, shouldStop_, processedTasks_,
                   taskQueue_, queueMutex_, completionMutex_, joinable, workerpc,
                   task, dtor, ctxDestroyed, currentCtx, uploads, submitted,
                   handed, threads, starts>>
    /\ UNCHANGED extvars

\* faulty variant of Start: the isRunning_ guard is missing
StartNoGuard ==
    /\ mainpc = "start"
    /\ isRunning_' = TRUE
    /\ shouldStop_' = FALSE
    /\ processedTasks_' = 0
    /\ joinable' = TRUE
    /\ workerpc' = "makeCurrent"
    /\ threads' = threads + 1
    /\ starts' = starts + 1
    /\ mainpc' = Returned
    /\ lastRet' = "other"
    /\ UNCHANGED <<workerContext_, contextInitialized_, taskQueue_, queueMutex_,
                   completionMutex_, task, dtor, ctxDestroyed, ctxCreated,
                   currentCtx, uploads, submitted, handed>>
    /\ UNCHANGED extvars

\* void RenderThread::start()
Start ==
    /\ mainpc = "start"
    /\ IF isRunning_
       THEN UNCHANGED <<isRunning_, shouldStop_, processedTasks_, joinable,
                        workerpc, threads, starts>>
       ELSE /\ isRunning_' = TRUE
            /\ shouldStop_' = FALSE
            /\ processedTasks_' = 0
            /\ joinable' = TRUE
            /\ workerpc' = "makeCurrent"
            /\ threads' = threads + 1
            /\ starts' = starts + 1
    /\ mainpc' = Returned
    /\ lastRet' = "other"
    /\ UNCHANGED <<workerContext_, contextInitialized_, taskQueue_, queueMutex_,
                   completionMutex_, task, dtor, ctxDestroyed, ctxCreated,
                   currentCtx, uploads, submitted, handed>>
    /\ UNCHANGED extvars

\* stop(): if (!isRunning_) return;  shouldStop_ = true;
StopSignal ==
    /\ mainpc = "stop"
    /\ IF ~isRunning_
       THEN /\ mainpc' = Returned
            /\ lastRet' = "stop"
            /\ UNCHANGED shouldStop_
       ELSE /\ shouldStop_' = TRUE
            /\ mainpc' = "stop_lock"
            /\ lastRet' = "none"
    /\ UNCHANGED <<workerContext_, contextInitialized_, isRunning_, processedTasks_,
                   taskQueue_, queueMutex_, completionMutex_, joinable, workerpc,
                   task, dtor, ctxDestroyed, ctxCreated, currentCtx, uploads,
                   submitted, handed, threads, starts>>
    /\ UNCHANGED extvars

\* stop(): std::lock_guard<std::mutex> lock(queueMutex_);
StopLock ==
    /\ mainpc = "stop_lock"
    /\ queueMutex_ = "free"
    /\ queueMutex_' = "main"
    /\ mainpc' = "stop_notify"
    /\ UNCHANGED <<workerContext_, contextInitialized_, isRunning_, shouldStop_,
                   processedTasks_, taskQueue_, completionMutex_, joinable, workerpc,
                   task, dtor, ctxDestroyed, ctxCreated, currentCtx, uploads,
                   submitted, handed, threads, starts, lastRet>>
    /\ UNCHANGED extvars

\* stop(): queueCondition_.notify_one(); and the end of the lock_guard's scope
StopNotify ==
    /\ mainpc = "stop_notify"
    /\ workerpc' = NotifyQueue(workerpc)
    /\ queueMutex_' = "free"
    /\ mainpc' = "stop_join"
    /\ UNCHANGED <<workerContext_, contextInitialized_, isRunning_, shouldStop_,
                   processedTasks_, taskQueue_, completionMutex_, joinable,
                   task, dtor, ctxDestroyed, ctxCreated, currentCtx, uploads,
                   submitted, handed, threads, starts, lastRet>>
    /\ UNCHANGED extvars

\* stop(): if (workerThread_.joinable()) workerThread_.join();
StopJoin ==
    /\ mainpc = "stop_join"
    /\ IF joinable
       THEN /\ workerpc = "done"
            /\ workerpc' = "none"
            /\ joinable' = FALSE
            /\ threads' = threads - 1
       ELSE UNCHANGED <<workerpc, joinable, threads>>
    /\ mainpc' = "stop_cleanup"
    /\ UNCHANGED <<workerContext_, contextInitialized_, isRunning_, shouldStop_,
                   processedTasks_, taskQueue_, queueMutex_, completionMutex_,
                   task, dtor, ctxDestroyed, ctxCreated, currentCtx, uploads,
                   submitted, handed, starts, lastRet>>
    /\ UNCHANGED extvars

\* faulty variant of StopCleanup: workerContext_ is not reset to nullptr
StopCleanupKeepPointer ==
    /\ mainpc = "stop_cleanup"
    /\ IF workerContext_ # 0
       THEN ctxDestroyed' = [ctxDestroyed EXCEPT ![workerContext_] = @ + 1]
       ELSE UNCHANGED ctxDestroyed
    /\ isRunning_' = FALSE
    /\ mainpc' = Returned
    /\ lastRet' = "stop"
    /\ UNCHANGED <<workerContext_, contextInitialized_, shouldStop_, processedTasks_,
                   taskQueue_, queueMutex_, completionMutex_, joinable, workerpc,
                   task, dtor, ctxCreated, currentCtx, uploads, submitted, handed,
                   threads, starts>>
    /\ UNCHANGED extvars

\* stop(): if (workerContext_) { glfwDestroyWindow(workerContext_);
\*         workerContext_ = nullptr; }  isRunning_ = false;
StopCleanup ==
    /\ mainpc = "stop_cleanup"
    /\ IF workerContext_ # 0
       THEN /\ ctxDestroyed' = [ctxDestroyed EXCEPT ![workerContext_] = @ + 1]
            /\ workerContext_' = 0
       ELSE UNCHANGED <<ctxDestroyed, workerContext_>>
    /\ isRunning_' = FALSE
    /\ mainpc' = Returned
    /\ lastRet' = "stop"
    /\ UNCHANGED <<contextInitialized_, shouldStop_, processedTasks_, taskQueue_,
                   queueMutex_, completionMutex_, joinable, workerpc, task, dtor,
                   ctxCreated, currentCtx, uploads, submitted, handed, threads,
                   starts>>
    /\ UNCHANGED extvars

\* the push of a submit call, made under a lock_guard on queueMutex_
Push(t) ==
    /\ queueMutex_ = "free"
    /\ taskQueue_' = Append(taskQueue_, t)
    /\ submitted' = Append(submitted, t)
    /\ mainpc' = "submit_notify"
    /\ lastRet' = "none"
    /\ UNCHANGED <<workerContext_, contextInitialized_, isRunning_, shouldStop_,
                   processedTasks_, queueMutex_, completionMutex_, joinable,
                   workerpc, task, dtor, ctxDestroyed, ctxCreated, currentCtx,
                   uploads, handed, threads, starts>>
    /\ UNCHANGED extvars

\* void RenderThread::submitTask(const RenderTask& task): the locked push
SubmitTask(t) ==
    /\ mainpc = "submitTask"
    /\ Push(RenderTask(t, -1, NullPtr, 0, Len(submitted) + 1))

\* void RenderThread::submitPatchUpload(patchId, vertexData, vertexSize,
\*                                      indexData, indexSize): the locked push
SubmitPatchUpload(patchId, vertexData, vertexSize, indexData, indexSize) ==
    /\ mainpc = "submitPatchUpload"
    /\ Push(RenderTask("UPLOAD_PATCH", patchId, vertexData,
                       EncodeSize(vertexSize, indexSize), Len(submitted) + 1))

\* submitTask / submitPatchUpload: queueCondition_.notify_one();
SubmitNotify ==
    /\ mainpc = "submit_notify"
    /\ workerpc' = NotifyQueue(workerpc)
    /\ mainpc' = Returned
    /\ lastRet' = "other"
    /\ UNCHANGED <<progvars, task, dtor, ctxDestroyed, ctxCreated, currentCtx,
                   uploads, submitted, handed, threads, starts>>
    /\ UNCHANGED extvars

\* waitForCompletion(): std::unique_lock<std::mutex> lock(completionMutex_);
\* also the re-acquisition of the mutex when wait() is woken
WaitLock ==
    /\ mainpc \in {"waitForCompletion", "wfc_wake"}
    /\ completionMutex_ = "free"
    /\ completionMutex_' = "main"
    /\ mainpc' = "wfc_pred"
    /\ lastRet' = "none"
    /\ UNCHANGED <<workerContext_, contextInitialized_, isRunning_, shouldStop_,
                   processedTasks_, taskQueue_, queueMutex_, joinable, workerpc,
                   task, dtor, ctxDestroyed, ctxCreated, currentCtx, uploads,
                   submitted, handed, threads, starts>>
    /\ UNCHANGED extvars

\* faulty variant of WaitPred: the wait returns whatever the queue holds
WaitPredIgnoresQueue ==
    /\ mainpc = "wfc_pred"
    /\ mainpc' = "wfc_return"
    /\ UNCHANGED <<progvars, workerpc, task, dtor, ctxDestroyed, ctxCreated,
                   currentCtx, uploads, submitted, handed, threads, starts,
                   lastRet>>
    /\ UNCHANGED extvars

\* waitForCompletion(): the predicate  taskQueue_.empty(), read without queueMutex_
WaitPred ==
    /\ mainpc = "wfc_pred"
    /\ mainpc' = IF taskQueue_ = << >> THEN "wfc_return" ELSE "wfc_sleep"
    /\ UNCHANGED <<progvars, workerpc, task, dtor, ctxDestroyed, ctxCreated,
                   currentCtx, uploads, submitted, handed, threads, starts,
                   lastRet>>
    /\ UNCHANGED extvars

\* waitForCompletion(): wait() releases completionMutex_ and blocks
WaitSleep ==
    /\ mainpc = "wfc_sleep"
    /\ completionMutex_' = "free"
    /\ mainpc' = "wfc_blocked"
    /\ UNCHANGED <<workerContext_, contextInitialized_, isRunning_, shouldStop_,
                   processedTasks_, taskQueue_, queueMutex_, joinable, workerpc,
                   task, dtor, ctxDestroyed, ctxCreated, currentCtx, uploads,
                   submitted, handed, threads, starts, lastRet>>
    /\ UNCHANGED extvars

\* waitForCompletion() returns: the unique_lock releases completionMutex_
WaitReturn ==
    /\ mainpc = "wfc_return"
    /\ completionMutex_' = "free"
    /\ mainpc' = Returned
    /\ lastRet' = "other"
    /\ UNCHANGED <<workerContext_, contextInitialized_, isRunning_, shouldStop_,
                   processedTasks_, taskQueue_, queueMutex_, joinable, workerpc,
                   task, dtor, ctxDestroyed, ctxCreated, currentCtx, uploads,
                   submitted, handed, threads, starts>>
    /\ UNCHANGED extvars

\* std::condition_variable::wait may return without a notification
SpuriousWakeMain ==
    /\ mainpc = "wfc_blocked"
    /\ mainpc' = "wfc_wake"
    /\ UNCHANGED <<progvars, workerpc, task, dtor, ctxDestroyed, ctxCreated,
                   currentCtx, uploads, submitted, handed, threads, starts,
                   lastRet>>
    /\ UNCHANGED extvars

\* ------------------------------------------------------------------------
\* Worker thread: RenderThread::threadFunction
\* ------------------------------------------------------------------------
\* glfwMakeContextCurrent(workerContext_);  contextInitialized_ = true;
WMakeCurrent ==
    /\ workerpc = "makeCurrent"
    /\ currentCtx' = workerContext_
    /\ contextInitialized_' = TRUE
    /\ workerpc' = "loopCheck"
    /\ UNCHANGED <<workerContext_, isRunning_, shouldStop_, processedTasks_,
                   taskQueue_, queueMutex_, completionMutex_, joinable, mainpc,
                   task, dtor, ctxDestroyed, ctxCreated, uploads, submitted,
                   handed, threads, starts, lastRet>>
    /\ UNCHANGED extvars

\* while (!shouldStop_)
WLoopCheck ==
    /\ workerpc = "loopCheck"
    /\ workerpc' = IF shouldStop_ THEN "detach" ELSE "lock"
    /\ UNCHANGED <<progvars, mainpc, task, dtor, ctxDestroyed, ctxCreated,
                   currentCtx, uploads, submitted, handed, threads, starts,
                   lastRet>>
    /\ UNCHANGED extvars

\* std::unique_lock<std::mutex> lock(queueMutex_);  lock.lock();  and the
\* re-acquisition of queueMutex_ when queueCondition_.wait() is woken
WLock ==
    /\ workerpc \in {"lock", "relock", "wake"}
    /\ queueMutex_ = "free"
    /\ queueMutex_' = "worker"
    /\ workerpc' = IF workerpc = "relock" THEN "innerCheck" ELSE "waitPred"
    /\ task' = IF workerpc = "relock" THEN NoTask ELSE task
    /\ UNCHANGED <<workerContext_, contextInitialized_, isRunning_, shouldStop_,
                   processedTasks_, taskQueue_, completionMutex_, joinable, mainpc,
                   dtor, ctxDestroyed, ctxCreated, currentCtx, uploads, submitted,
                   handed, threads, starts, lastRet>>
    /\ UNCHANGED extvars

\* faulty variant of WWaitPred: the predicate does not look at shouldStop_
WWaitPredNoStop ==
    /\ workerpc = "waitPred"
    /\ workerpc' = IF taskQueue_ # << >> THEN "innerCheck" ELSE "sleep"
    /\ UNCHANGED <<progvars, mainpc, task, dtor, ctxDestroyed, ctxCreated,
                   currentCtx, uploads, submitted, handed, threads, starts,
                   lastRet>>
    /\ UNCHANGED extvars

\* queueCondition_.wait(lock, ...): the predicate !taskQueue_.empty() || shouldStop_
WWaitPred ==
    /\ workerpc = "waitPred"
    /\ workerpc' = IF taskQueue_ # << >> \/ shouldStop_ THEN "innerCheck" ELSE "sleep"
    /\ UNCHANGED <<progvars, mainpc, task, dtor, ctxDestroyed, ctxCreated,
                   currentCtx, uploads, submitted, handed, threads, starts,
                   lastRet>>
    /\ UNCHANGED extvars

\* queueCondition_.wait(lock, ...): wait() releases queueMutex_ and blocks
WSleep ==
    /\ workerpc = "sleep"
    /\ queueMutex_' = "free"
    /\ workerpc' = "waiting"
    /\ UNCHANGED <<workerContext_, contextInitialized_, isRunning_, shouldStop_,
                   processedTasks_, taskQueue_, completionMutex_, joinable, mainpc,
                   task, dtor, ctxDestroyed, ctxCreated, currentCtx, uploads,
                   submitted, handed, threads, starts, lastRet>>
    /\ UNCHANGED extvars

\* while (!taskQueue_.empty() && !shouldStop_)
WInnerCheck ==
    /\ workerpc = "innerCheck"
    /\ workerpc' = IF taskQueue_ # << >> /\ ~shouldStop_ THEN "pop" ELSE "checkEmpty"
    /\ UNCHANGED <<progvars, mainpc, task, dtor, ctxDestroyed, ctxCreated,
                   currentCtx, uploads, submitted, handed, threads, starts,
                   lastRet>>
    /\ UNCHANGED extvars

\* faulty variant of WPop: the task is taken from the back of the queue
WPopBack ==
    /\ workerpc = "pop"
    /\ task' = taskQueue_[Len(taskQueue_)]
    /\ taskQueue_' = SubSeq(taskQueue_, 1, Len(taskQueue_) - 1)
    /\ queueMutex_' = "free"
    /\ workerpc' = "process"
    /\ UNCHANGED <<workerContext_, contextInitialized_, isRunning_, shouldStop_,
                   processedTasks_, completionMutex_, joinable, mainpc, dtor,
                   ctxDestroyed, ctxCreated, currentCtx, uploads, submitted,
                   handed, threads, starts, lastRet>>
    /\ UNCHANGED extvars

\* faulty variant of WPop: lock.unlock() is missing, the lock is kept over processTask
WPopKeepLock ==
    /\ workerpc = "pop"
    /\ task' = Head(taskQueue_)
    /\ taskQueue_' = Tail(taskQueue_)
    /\ workerpc' = "process"
    /\ UNCHANGED <<workerContext_, contextInitialized_, isRunning_, shouldStop_,
                   processedTasks_, queueMutex_, completionMutex_, joinable, mainpc,
                   dtor, ctxDestroyed, ctxCreated, currentCtx, uploads, submitted,
                   handed, threads, starts, lastRet>>
    /\ UNCHANGED extvars

\* RenderTask task = taskQueue_.front();  taskQueue_.pop();  lock.unlock();
WPop ==
    /\ workerpc = "pop"
    /\ task' = Head(taskQueue_)
    /\ taskQueue_' = Tail(taskQueue_)
    /\ queueMutex_' = "free"
    /\ workerpc' = "process"
    /\ UNCHANGED <<workerContext_, contextInitialized_, isRunning_, shouldStop_,
                   processedTasks_, completionMutex_, joinable, mainpc, dtor,
                   ctxDestroyed, ctxCreated, currentCtx, uploads, submitted,
                   handed, threads, starts, lastRet>>
    /\ UNCHANGED extvars

\* void RenderThread::uploadPatchData(patchId, vertexData, vertexSize, indexData,
\* indexSize): the buffers it creates and what it fills them from
UploadPatchData(patchId, vertexData, vertexSize, indexData, indexSize) ==
    [patchId |-> patchId, vertexData |-> vertexData, vertexSize |-> vertexSize,
     indexData |-> indexData, indexSize |-> indexSize, ctx |-> currentCtx]

\* void RenderThread::processTask(const RenderTask& task): the uploads it makes
ProcessTask(t) ==
    IF t.type = "UPLOAD_PATCH"
    THEN << UploadPatchData(t.patchId, t.data, DecodeVertexSize(t.dataSize),
                            IntPtr(DecodeIndexSize(t.dataSize)),
                            DecodeIndexSize(t.dataSize)) >>
    ELSE << >>

\* processTask(task);
WProcess ==
    /\ workerpc = "process"
    /\ handed' = Append(handed, task)
    /\ uploads' = uploads \o ProcessTask(task)
    /\ workerpc' = "incr"
    /\ UNCHANGED <<progvars, mainpc, task, dtor, ctxDestroyed, ctxCreated,
                   currentCtx, submitted, threads, starts, lastRet>>
    /\ UNCHANGED extvars

\* faulty variant of WIncr: the task is not counted
WIncrSkip ==
    /\ workerpc = "incr"
    /\ workerpc' = "relock"
    /\ UNCHANGED <<progvars, mainpc, task, dtor, ctxDestroyed, ctxCreated,
                   currentCtx, uploads, submitted, handed, threads, starts,
                   lastRet>>
    /\ UNCHANGED extvars

\* processedTasks_++;
WIncr ==
    /\ workerpc = "incr"
    /\ processedTasks_' = processedTasks_ + 1
    /\ workerpc' = "relock"
    /\ UNCHANGED <<workerContext_, contextInitialized_, isRunning_, shouldStop_,
                   taskQueue_, queueMutex_, completionMutex_, joinable, mainpc,
                   task, dtor, ctxDestroyed, ctxCreated, currentCtx, uploads,
                   submitted, handed, threads, starts, lastRet>>
    /\ UNCHANGED extvars

\* if (taskQueue_.empty()) { lock.unlock(); ... }  otherwise the unique_lock
\* releases queueMutex_ at the end of the iteration
WCheckEmpty ==
    /\ workerpc = "checkEmpty"
    /\ queueMutex_' = "free"
    /\ workerpc' = IF taskQueue_ = << >> THEN "lockCompletion" ELSE "loopCheck"
    /\ UNCHANGED <<workerContext_, contextInitialized_, isRunning_, shouldStop_,
                   processedTasks_, taskQueue_, completionMutex_, joinable, mainpc,
                   task, dtor, ctxDestroyed, ctxCreated, currentCtx, uploads,
                   submitted, handed, threads, starts, lastRet>>
    /\ UNCHANGED extvars

\* std::lock_guard<std::mutex> completionLock(completionMutex_);
WLockCompletion ==
    /\ workerpc = "lockCompletion"
    /\ completionMutex_ = "free"
    /\ completionMutex_' = "worker"
    /\ workerpc' = "notifyAll"
    /\ UNCHANGED <<workerContext_, contextInitialized_, isRunning_, shouldStop_,
                   processedTasks_, taskQueue_, queueMutex_, joinable, mainpc,
                   task, dtor, ctxDestroyed, ctxCreated, currentCtx, uploads,
                   submitted, handed, threads, starts, lastRet>>
    /\ UNCHANGED extvars

\* completionCondition_.notify_all();  and the end of the lock_guard's scope
WNotifyAll ==
    /\ workerpc = "notifyAll"
    /\ mainpc' = NotifyCompletion(mainpc)
    /\ completionMutex_' = "free"
    /\ workerpc' = "loopCheck"
    /\ UNCHANGED <<workerContext_, contextInitialized_, isRunning_, shouldStop_,
                   processedTasks_, taskQueue_, queueMutex_, joinable,
                   task, dtor, ctxDestroyed, ctxCreated, currentCtx, uploads,
                   submitted, handed, threads, starts, lastRet>>
    /\ UNCHANGED extvars

\* glfwMakeContextCurrent(nullptr);  and the return of threadFunction
WDetach ==
    /\ workerpc = "detach"
    /\ currentCtx' = 0
    /\ workerpc' = "done"
    /\ UNCHANGED <<progvars, mainpc, task, dtor, ctxDestroyed, ctxCreated,
                   uploads, submitted, handed, threads, starts, lastRet>>
    /\ UNCHANGED extvars

\* std::condition_variable::wait may return without a notification
SpuriousWakeWorker ==
    /\ workerpc = "waiting"
    /\ workerpc' = "wake"
    /\ UNCHANGED <<progvars, mainpc, task, dtor, ctxDestroyed, ctxCreated,
                   currentCtx, uploads, submitted, handed, threads, starts,
                   lastRet>>
    /\ UNCHANGED extvars

\* ------------------------------------------------------------------------
\* Specification
\* ------------------------------------------------------------------------
\* the steps of a call in progress on the main thread
MainStep ==
    \/ \E ok \in BOOLEAN : Initialize(ok)
    \/ Start
    \/ StopSignal
    \/ StopLock
    \/ StopNotify
    \/ StopJoin
    \/ StopCleanup
    \/ \E t \in TaskTypes : SubmitTask(t)
    \/ \E p \in PatchIds :
          SubmitPatchUpload(p, VertexPtr(p), PatchVertexBytes(p),
                            IndexPtr(p), PatchIndexBytes(p))
    \/ SubmitNotify
    \/ WaitLock
    \/ WaitPred
    \/ WaitSleep
    \/ WaitReturn

\* the steps of the worker thread
WorkerStep ==
    \/ WMakeCurrent
    \/ WLoopCheck
    \/ WLock
    \/ WWaitPred
    \/ WSleep
    \/ WInnerCheck
    \/ WPop
    \/ WProcess
    \/ WIncr
    \/ WCheckEmpty
    \/ WLockCompletion
    \/ WNotifyAll
    \/ WDetach

Next ==
    \/ \E op \in Ops : Call(op)
    \/ MainStep
    \/ WorkerStep
    \/ SpuriousWakeMain
    \/ SpuriousWakeWorker

Spec == Init /\ [][Next]_vars

\* both threads are scheduled: a thread that can take a step eventually takes one;
\* the main thread is not obliged to make a further call, and a wait() wakes
\* without a notification only finitely often
FairSpec ==
    /\ Spec
    /\ WF_vars(MainStep)
    /\ WF_vars(WorkerStep)
    /\ <>[][~SpuriousWakeMain /\ ~SpuriousWakeWorker]_vars

\* ------------------------------------------------------------------------
\* Types
\* ------------------------------------------------------------------------
TypeOK ==
    /\ workerContext_ \in 0 .. MaxCtx
    /\ isRunning_ \in BOOLEAN /\ shouldStop_ \in BOOLEAN
    /\ contextInitialized_ \in BOOLEAN /\ joinable \in BOOLEAN
    /\ processedTasks_ \in 0 .. MaxTasks
    /\ Len(taskQueue_) <= MaxTasks
    /\ queueMutex_ \in {"free", "main", "worker"}
    /\ completionMutex_ \in {"free", "main", "worker"}
    /\ ctxCreated \in 0 .. MaxCtx
    /\ currentCtx \in 0 .. MaxCtx
    /\ starts \in 0 .. MaxStarts

\* ------------------------------------------------------------------------
\* Derived notions
\* ------------------------------------------------------------------------
\* the worker has popped a task and has not yet counted it
InFlight == workerpc \in {"process", "incr"}

InQueue(u) == \E i \in 1 .. Len(taskQueue_) : taskQueue_[i].uid = u
IsCurrent(u) == InFlight /\ task.uid = u
WasHanded(u) == \E i \in 1 .. Len(handed) : handed[i].uid = u
\* the task has been through processTask and has been counted
Done(u) == WasHanded(u) /\ ~IsCurrent(u)

B2N(b) == IF b THEN 1 ELSE 0

IsPrefix(s, t) == Len(s) <= Len(t) /\ \A i \in 1 .. Len(s) : s[i] = t[i]

\* a worker thread that was started exactly once and has not been told to stop
RunningOnce == isRunning_ /\ starts = 1 /\ ~shouldStop_

\* ------------------------------------------------------------------------
\* The size encoding of an upload task, on arbitrary sizes (SizeSpec)
\* ------------------------------------------------------------------------
\* the values of a size_t, scaled to 2 * HalfBits bits
SizeT == 0 .. (WordMod - 1)

\* a call submitPatchUpload(0, vertexData, vertexSize, indexData, indexSize) is
\* about to be made with any two size_t values
SizeInit ==
    /\ RenderThreadInit
    /\ sizepc = "args"
    /\ argSizes \in [vertexSize : SizeT, indexSize : SizeT]
    /\ sizeTask = NoTask
    /\ sizeUpload = << >>
    /\ PerformanceMonitorInit
    /\ TerrainUnused
    /\ AppUnused

\* submitPatchUpload: encodedSize = (indexSize << 32) | vertexSize;
\* taskQueue_.push(RenderTask(UPLOAD_PATCH, patchId, vertexData, encodedSize));
SizeSubmit ==
    /\ sizepc = "args"
    /\ sizeTask' = RenderTask("UPLOAD_PATCH", 0, VertexPtr(0),
                              EncodeSize(argSizes.vertexSize, argSizes.indexSize), 1)
    /\ sizepc' = "queued"
    /\ UNCHANGED <<rtvars, argSizes, sizeUpload, monitorvars, terrainvars, appvars>>

\* processTask(task) on the worker: decodes the sizes and calls uploadPatchData
SizeProcess ==
    /\ sizepc = "queued"
    /\ sizeUpload' = ProcessTask(sizeTask)
    /\ sizepc' = "done"
    /\ UNCHANGED <<rtvars, argSizes, sizeTask, monitorvars, terrainvars, appvars>>

SizeNext ==
    \/ SizeSubmit
    \/ SizeProcess

SizeSpec == SizeInit /\ [][SizeNext]_vars

\* ------------------------------------------------------------------------
\* PerformanceMonitor (MonitorSpec)
\* ------------------------------------------------------------------------
\* the frame times endFrame() may measure, in milliseconds: the short ones and
\* one longer than the initial value of minFrameTime
FrameTimes == (0 .. MaxFrameTime) \cup {PerformanceMetrics.minFrameTime + 1}
\* the counts handed to incrementDrawCalls / addTriangles / addVertices
Counts == {0, 1, IntMax}
\* the byte counts handed to addMemoryUsage / addVBOMemory / addTextureMemory
Bytes == {0, WordMod \div 2}

RECURSIVE SumSeq(_)
SumSeq(q) == IF q = << >> THEN 0 ELSE Head(q) + SumSeq(Tail(q))

\* int += int : the sum when it is representable; signed overflow is undefined
\* behaviour, any int may result
IntAdd(a, b) == IF a + b \in IntRange THEN {a + b} ELSE IntRange

\* size_t += size_t : unsigned arithmetic wraps
SizeAdd(a, b) == (a + b) % WordMod

\* void PerformanceMonitor::updateFPS(): the new value of metrics_.fps
UpdateFPS(m, history) ==
    IF Len(history) < 2 THEN m.fps
    ELSE IF SumSeq(history) > 0
    THEN Ratio(1000 * Len(history), SumSeq(history))
    ELSE m.fps

\* void PerformanceMonitor::updateFrameTime(): the new value of metrics_.frameTime
UpdateFrameTime(m, history) ==
    IF history = << >> THEN m.frameTime
    ELSE Ratio(SumSeq(history), Len(history))

\* the state of everything but the monitor
nonmonitorvars == <<rtvars, sizevars, terrainvars, appvars>>

\* endFrame(): frameTimeHistory_.push_back(frameTimeMs); and the erase of the
\* oldest element once the size exceeds FRAME_HISTORY_SIZE
PushFrameTime(history, frameTimeMs) ==
    LET pushed == Append(history, frameTimeMs)
    IN IF Len(pushed) > FRAME_HISTORY_SIZE THEN Tail(pushed) ELSE pushed

\* endFrame(): the metrics after the min/max update, updateFPS() and
\* updateFrameTime(), history being the history after the push
EndFrameMetrics(m, history, frameTimeMs) ==
    LET mm == [m EXCEPT
                 !.minFrameTime = IF frameTimeMs < @ THEN frameTimeMs ELSE @,
                 !.maxFrameTime = IF frameTimeMs > @ THEN frameTimeMs ELSE @]
    IN [mm EXCEPT !.fps = UpdateFPS(mm, history),
                  !.frameTime = UpdateFrameTime(mm, history)]

\* one more call is made on the monitor
MonitorCalled ==
    /\ calls < MaxCalls
    /\ calls' = calls + 1

\* void PerformanceMonitor::beginFrame()
BeginFrame ==
    /\ MonitorCalled
    /\ metrics_' = [metrics_ EXCEPT !.lastFrameTime = "beginFrame"]
    /\ UNCHANGED <<frameTimeHistory_, measured, nonmonitorvars>>

\* void PerformanceMonitor::endFrame(); frameTimeMs is the time measured
EndFrame(frameTimeMs) ==
    /\ MonitorCalled
    /\ frameTimeHistory_' = PushFrameTime(frameTimeHistory_, frameTimeMs)
    /\ metrics_' = EndFrameMetrics(metrics_, frameTimeHistory_', frameTimeMs)
    /\ measured' = Append(measured, frameTimeMs)
    /\ UNCHANGED nonmonitorvars

\* void incrementDrawCalls(int count = 1) { metrics_.drawCalls += count; }
IncrementDrawCalls(count) ==
    /\ MonitorCalled
    /\ \E r \in IntAdd(metrics_.drawCalls, count) :
          metrics_' = [metrics_ EXCEPT !.drawCalls = r]
    /\ UNCHANGED <<frameTimeHistory_, measured, nonmonitorvars>>

\* void addTriangles(int count) { metrics_.trianglesDrawn += count; }
AddTriangles(count) ==
    /\ MonitorCalled
    /\ \E r \in IntAdd(metrics_.trianglesDrawn, count) :
          metrics_' = [metrics_ EXCEPT !.trianglesDrawn = r]
    /\ UNCHANGED <<frameTimeHistory_, measured, nonmonitorvars>>

\* void addVertices(int count) { metrics_.verticesDrawn += count; }
AddVertices(count) ==
    /\ MonitorCalled
    /\ \E r \in IntAdd(metrics_.verticesDrawn, count) :
          metrics_' = [metrics_ EXCEPT !.verticesDrawn = r]
    /\ UNCHANGED <<frameTimeHistory_, measured, nonmonitorvars>>

\* void addMemoryUsage(size_t bytes) { metrics_.memoryUsage += bytes; }
AddMemoryUsage(bytes) ==
    /\ MonitorCalled
    /\ metrics_' = [metrics_ EXCEPT !.memoryUsage = SizeAdd(@, bytes)]
    /\ UNCHANGED <<frameTimeHistory_, measured, nonmonitorvars>>

\* void addVBOMemory(size_t bytes) { metrics_.vboMemory += bytes; }
AddVBOMemory(bytes) ==
    /\ MonitorCalled
    /\ metrics_' = [metrics_ EXCEPT !.vboMemory = SizeAdd(@, bytes)]
    /\ UNCHANGED <<frameTimeHistory_, measured, nonmonitorvars>>

\* void addTextureMemory(size_t bytes) { metrics_.textureMemory += bytes; }
AddTextureMemory(bytes) ==
    /\ MonitorCalled
    /\ metrics_' = [metrics_ EXCEPT !.textureMemory = SizeAdd(@, bytes)]
    /\ UNCHANGED <<frameTimeHistory_, measured, nonmonitorvars>>

\* void PerformanceMonitor::reset()
Reset ==
    /\ MonitorCalled
    /\ metrics_' = PerformanceMetrics
    /\ frameTimeHistory_' = << >>
    /\ measured' = << >>
    /\ UNCHANGED nonmonitorvars

\* a PerformanceMonitor has been constructed
MonitorInit ==
    /\ RenderThreadInit
    /\ SizeUnused
    /\ PerformanceMonitorInit
    /\ TerrainUnused
    /\ AppUnused

MonitorNext ==
    \/ BeginFrame
    \/ \E frameTimeMs \in FrameTimes : EndFrame(frameTimeMs)
    \/ \E count \in Counts : IncrementDrawCalls(count)
    \/ \E count \in Counts : AddTriangles(count)
    \/ \E count \in Counts : AddVertices(count)
    \/ \E bytes \in Bytes : AddMemoryUsage(bytes)
    \/ \E bytes \in Bytes : AddVBOMemory(bytes)
    \/ \E bytes \in Bytes : AddTextureMemory(bytes)
    \/ Reset

MonitorSpec == MonitorInit /\ [][MonitorNext]_vars

\* ------------------------------------------------------------------------
\* TerrainGenerator (TerrainSpec)
\* ------------------------------------------------------------------------
\* Heights are computed exactly: a float is the quotient of two integers, and
\* the rounding of float arithmetic is left out.  A coordinate handed to
\* perlinNoise is x * 0.1f and is carried in tenths.

\* int / int of C++: the quotient truncated towards zero (b > 0)
CDiv(a, b) == IF a >= 0 THEN a \div b ELSE 0 - ((0 - a) \div b)

Abs(a) == IF a >= 0 THEN a ELSE 0 - a

\* float TerrainGenerator::grad(int hash, float x, float z) const
Grad(hash, x, z) ==
    LET h == hash % 16
        u == IF h < 8 THEN x ELSE z
        v == IF h < 4 THEN z ELSE IF h = 12 \/ h = 14 THEN x ELSE 0
    IN (IF h % 2 = 0 THEN u ELSE 0 - u) + (IF (h \div 2) % 2 = 0 THEN v ELSE 0 - v)

\* static_cast<int>(x * frequency) & 255, for x in tenths
TableIndex(x10) == CDiv(x10, 10) % PermutationSize

\* perlinNoise: the sum over octaves i .. octaves - 1 of
\* grad(permutation_[..] + permutation_[..], x * frequency, z * frequency) * amplitude
\* with frequency = 2^i and amplitude = persistence^i = 2^-i; the sum is in
\* units of 1 / (10 * 2^(octaves - 1))
RECURSIVE OctaveSum(_, _, _, _, _)
OctaveSum(perm, x10, z10, i, octaves) ==
    IF i >= octaves THEN 0
    ELSE LET frequency == Pow2(i)
             amplitude == Pow2(octaves - 1 - i)
             hash == perm[TableIndex(x10 * frequency)] + perm[TableIndex(z10 * frequency)]
         IN Grad(hash, x10 * frequency, z10 * frequency) * amplitude
              + OctaveSum(perm, x10, z10, i + 1, octaves)

\* maxValue of perlinNoise: the sum of the amplitudes, in units of 1 / 2^(octaves - 1)
RECURSIVE AmplitudeSum(_, _)
AmplitudeSum(i, octaves) ==
    IF i >= octaves THEN 0 ELSE Pow2(octaves - 1 - i) + AmplitudeSum(i + 1, octaves)

\* float TerrainGenerator::perlinNoise(x, z, octaves, persistence = 0.5f) const
\* returns total / maxValue
PerlinNoise(perm, x10, z10, octaves) ==
    Ratio(OctaveSum(perm, x10, z10, 0, octaves), 10 * AmplitudeSum(0, octaves))

\* float TerrainGenerator::getHeight(float x, float z) const
\*   return perlinNoise(x * 0.1f, z * 0.1f, 4, 0.5f) * heightScale_;
GetHeight(perm, x, z) ==
    LET noise == PerlinNoise(perm, x, z, 4)
    IN Ratio(noise.num * heightScale_, noise.den)

\* a TerrainVertex: position = (x * patchSize_, getHeight(worldX, worldZ), z * patchSize_)
TerrainVertex(perm, x, z) ==
    [x |-> x * patchSize_, y |-> GetHeight(perm, x * patchSize_, z * patchSize_),
     z |-> z * patchSize_]

\* faulty variant of QuadIndex: the first triangle is wound the other way round
QuadIndexOtherWinding(x, z, verticesPerRow, k) ==
    LET topLeft == z * verticesPerRow + x
        topRight == topLeft + 1
        bottomLeft == (z + 1) * verticesPerRow + x
        bottomRight == bottomLeft + 1
    IN << topLeft, topRight, bottomLeft, topRight, bottomLeft, bottomRight >>[k + 1]

\* the six indices of quad (x, z) of a patch, the entry number k (0 .. 5)
QuadIndex(x, z, verticesPerRow, k) ==
    LET topLeft == z * verticesPerRow + x
        topRight == topLeft + 1
        bottomLeft == (z + 1) * verticesPerRow + x
        bottomRight == bottomLeft + 1
    IN << topLeft, bottomLeft, topRight, topRight, bottomLeft, bottomRight >>[k + 1]

\* void TerrainGenerator::createPatch(startX, startZ, patchSize, patch): the
\* vertices row by row, the indices quad by quad; the centre and the bounding
\* radius (floating point) are left out
CreatePatch(perm, startX, startZ, patchSize) ==
    LET verticesPerRow == patchSize + 1
        rows == IF patchSize >= 0 THEN patchSize + 1 ELSE 0
        cells == IF patchSize > 0 THEN patchSize ELSE 0
    IN [vertices |-> [k \in 1 .. (rows * rows) |->
                        TerrainVertex(perm, startX + ((k - 1) % rows),
                                            startZ + ((k - 1) \div rows))],
        indices |-> [j \in 1 .. (cells * cells * 6) |->
                        QuadIndex(((j - 1) \div 6) % cells, ((j - 1) \div 6) \div cells,
                                  verticesPerRow, (j - 1) % 6)],
        startX |-> startX, startZ |-> startZ, patchSize |-> patchSize,
        lodLevel |-> 0, VAO |-> 0, VBO |-> 0, EBO |-> 0, isUploaded |-> FALSE]

\* const int patchesPerRow = std::sqrt(64);
patchesPerRow == 8

\* the state of everything but the terrain generator
nonterrainvars == <<rtvars, sizevars, monitorvars, appvars>>

\* void TerrainGenerator::generateTerrain()
GenerateTerrain ==
    /\ LET patchVertexSize == CDiv(gridSize_, patchesPerRow)
       IN patches_' = [n \in 1 .. (patchesPerRow * patchesPerRow) |->
                         CreatePatch(permutation_,
                                     ((n - 1) % patchesPerRow) * patchVertexSize,
                                     ((n - 1) \div patchesPerRow) * patchVertexSize,
                                     patchVertexSize)]
    /\ terrainpc' = "generated"
    /\ UNCHANGED <<gridSize_, permutation_, patchCount, nonterrainvars>>

\* size_t TerrainGenerator::getTotalVertices() const
RECURSIVE GetTotalVertices(_)
GetTotalVertices(ps) ==
    IF ps = << >> THEN 0 ELSE Len(Head(ps).vertices) + GetTotalVertices(Tail(ps))

\* size_t TerrainGenerator::getTotalTriangles() const
RECURSIVE GetTotalTriangles(_)
GetTotalTriangles(ps) ==
    IF ps = << >> THEN 0 ELSE (Len(Head(ps).indices) \div 3) + GetTotalTriangles(Tail(ps))

\* the grid sizes, the shuffles and the patch counts a generator is set up with
GridSizes == (0 - MaxGridSize) .. MaxGridSize
Shuffles == 0 .. MaxShuffle
PatchCounts == (0 - 1) .. MaxPatchCount

\* a TerrainGenerator has been constructed with any grid size, and the
\* configuration asks for any patch count
TerrainInit ==
    /\ RenderThreadInit
    /\ SizeUnused
    /\ PerformanceMonitorInit
    /\ \E gridSize \in GridSizes, s \in Shuffles, count \in PatchCounts :
          TerrainGeneratorInit(gridSize, s, count)
    /\ AppUnused

TerrainNext == GenerateTerrain

TerrainSpec == TerrainInit /\ [][TerrainNext]_vars

\* ------------------------------------------------------------------------
\* MultiThreadApp (AppSpec): main() constructs the application, calls
\* initialize() and run(), and destroys it
\* ------------------------------------------------------------------------
\* the application calls a member function of renderThread_ from the main
\* thread; "destructor" is the destruction of renderThread_ with the application
AppCall(op) ==
    /\ mainpc = "idle"
    /\ mainpc' = IF op = "destructor" THEN "stop" ELSE op
    /\ dtor' = (op = "destructor")
    /\ UNCHANGED <<progvars, workerpc, task, ctxDestroyed, ctxCreated, currentCtx,
                   uploads, submitted, handed, threads, starts, lastRet>>

\* the application takes a step that makes no call on renderThread_
AppLocal ==
    /\ mainpc = "idle"
    /\ UNCHANGED rtvars

\* initialize(): initializeTerrain() generates the terrain (scaled to NumPatches
\* patches of one cell), initializeRenderThread() calls renderThread_->initialize
AppInitialize ==
    /\ apppc = "constructed"
    /\ patches_' = [k \in 1 .. NumPatches |-> CreatePatch(permutation_, k - 1, 0, 1)]
    /\ terrainpc' = "generated"
    /\ AppCall("initialize")
    /\ apppc' = "initializeRenderThread"
    /\ UNCHANGED <<gridSize_, permutation_, patchCount, sizevars, monitorvars,
                   useMultiThreading_, patchesUploaded_, shouldClose, nextPatch, draws>>

\* initializeRenderThread(): if (!renderThread_->initialize(window_)) return false;
\* renderThread_->start();  a failed initialize() makes main() return, which
\* destroys the application: ~MultiThreadApp() calls cleanup()
AppStart ==
    /\ apppc = "initializeRenderThread"
    /\ IF lastRet = "initialize:true"
       THEN /\ AppCall("start")
            /\ apppc' = "start"
       ELSE /\ AppCall("stop")
            /\ apppc' = "cleanup"
    /\ UNCHANGED <<sizevars, monitorvars, terrainvars, useMultiThreading_,
                   patchesUploaded_, shouldClose, nextPatch, draws>>

\* run(): if (useMultiThreading_) submitPatchUploadWork();
AppRun ==
    /\ apppc = "start"
    /\ AppLocal
    /\ apppc' = IF useMultiThreading_ THEN "submitPatchUploadWork" ELSE "loop"
    /\ nextPatch' = 0
    /\ UNCHANGED <<sizevars, monitorvars, terrainvars, useMultiThreading_,
                   patchesUploaded_, shouldClose, draws>>

\* submitPatchUploadWork(): for (size_t i = 0; i < patches.size(); ++i)
\*     renderThread_->submitPatchUpload(i, ...);
AppSubmitPatchUploadWork ==
    /\ apppc = "submitPatchUploadWork"
    /\ IF nextPatch < Len(patches_)
       THEN /\ AppCall("submitPatchUpload")
            /\ nextPatch' = nextPatch + 1
            /\ apppc' = apppc
       ELSE /\ AppLocal
            /\ apppc' = "loop"
            /\ nextPatch' = nextPatch
    /\ UNCHANGED <<sizevars, monitorvars, terrainvars, useMultiThreading_,
                   patchesUploaded_, shouldClose, draws>>

\* the arguments submitPatchUploadWork() hands to submitPatchUpload for patch i
AppSubmitPatchUpload ==
    LET i == nextPatch - 1
    IN SubmitPatchUpload(i, VertexPtr(i), PatchVertexBytes(i),
                         IndexPtr(i), PatchIndexBytes(i))

\* run(): while (!glfwWindowShouldClose(window_)) { perfMonitor_->beginFrame();
\* update(); render(): ... if (useMultiThreading_) waitForRenderThread();
\* when the loop ends run() returns and main() destroys the application:
\* ~MultiThreadApp() calls cleanup(), which calls renderThread_->stop()
AppFrame ==
    /\ apppc = "loop"
    /\ IF shouldClose
       THEN /\ AppCall("stop")
            /\ apppc' = "cleanup"
            /\ UNCHANGED metrics_
       ELSE /\ Len(draws) < MaxFrames
            /\ metrics_' = [metrics_ EXCEPT !.lastFrameTime = "beginFrame"]
            /\ IF useMultiThreading_ THEN AppCall("waitForCompletion") ELSE AppLocal
            /\ apppc' = "render"
    /\ UNCHANGED <<sizevars, frameTimeHistory_, measured, calls, terrainvars,
                   useMultiThreading_, patchesUploaded_, shouldClose, nextPatch, draws>>

\* void MultiThreadApp::uploadPatchToGPU(TerrainPatch& patch); n is the number
\* of patches uploaded before, which fixes the names glGen* hands out
UploadPatchToGPU(patch, n) ==
    IF patch.isUploaded
    THEN patch
    ELSE [patch EXCEPT !.VAO = n + 1, !.VBO = 2 * n + 1, !.EBO = 2 * n + 2,
                       !.isUploaded = TRUE]

\* faulty variant of PatchesToUpload: the single-threaded fallback is taken
\* in either mode
PatchesToUploadAnyMode ==
    {k \in DOMAIN patches_ : ~patches_[k].isUploaded}

\* render(): the patches on which the patch loop runs the body of
\* uploadPatchToGPU: if (!useMultiThreading_) uploadPatchToGPU(patch), whose
\* body is under if (!patch.isUploaded)
PatchesToUpload ==
    IF useMultiThreading_ THEN {}
    ELSE {k \in DOMAIN patches_ : ~patches_[k].isUploaded}

\* render(), from the patch loop on: uploadPatchToGPU(patch) in single-threaded
\* mode, renderPatch(patch), which draws if (patch.isUploaded), and the counters
AppRender ==
    /\ apppc = "render"
    /\ AppLocal
    /\ LET fresh == PatchesToUpload
           before(k) == patchesUploaded_ + Cardinality({j \in fresh : j < k})
           after == [k \in DOMAIN patches_ |->
                        IF k \in fresh
                        THEN UploadPatchToGPU(patches_[k], before(k))
                        ELSE patches_[k]]
           bytes == SumSeq([k \in DOMAIN patches_ |->
                               IF k \in fresh
                               THEN PatchVertexBytes(k - 1) + PatchIndexBytes(k - 1)
                               ELSE 0])
           drawn == {k - 1 : k \in {j \in DOMAIN after : after[j].isUploaded}}
       IN /\ patches_' = after
          /\ patchesUploaded_' = patchesUploaded_ + Cardinality(fresh)
          /\ \E d \in IntAdd(metrics_.drawCalls, Len(patches_)),
                t \in IntAdd(metrics_.trianglesDrawn, GetTotalTriangles(patches_)),
                v \in IntAdd(metrics_.verticesDrawn, GetTotalVertices(patches_)) :
                metrics_' = [metrics_ EXCEPT
                               !.drawCalls = d, !.trianglesDrawn = t,
                               !.verticesDrawn = v,
                               !.vboMemory = SizeAdd(@, bytes)]
          /\ draws' = Append(draws,
                             [mt |-> useMultiThreading_,
                              uploaded |-> {uploads[i].patchId : i \in DOMAIN uploads},
                              drawn |-> drawn,
                              mainUploaded |-> drawn])
    /\ apppc' = "handleInput"
    /\ UNCHANGED <<sizevars, frameTimeHistory_, measured, calls, gridSize_,
                   permutation_, patchCount, terrainpc, useMultiThreading_,
                   shouldClose, nextPatch>>

\* void MultiThreadApp::handleInput(): the keys that change the state modelled
AppHandleInput(keyEscape, keyM) ==
    /\ apppc = "handleInput"
    /\ AppLocal
    /\ shouldClose' = (shouldClose \/ keyEscape)
    /\ useMultiThreading_' = IF keyM THEN ~useMultiThreading_ ELSE useMultiThreading_
    /\ apppc' = "endFrame"
    /\ UNCHANGED <<sizevars, monitorvars, terrainvars, patchesUploaded_,
                   nextPatch, draws>>

\* run(): perfMonitor_->endFrame(); frameTimeMs is the time measured
AppEndFrame(frameTimeMs) ==
    /\ apppc = "endFrame"
    /\ AppLocal
    /\ frameTimeHistory_' = PushFrameTime(frameTimeHistory_, frameTimeMs)
    /\ metrics_' = EndFrameMetrics(metrics_, frameTimeHistory_', frameTimeMs)
    /\ measured' = Append(measured, frameTimeMs)
    /\ apppc' = "loop"
    /\ UNCHANGED <<sizevars, calls, terrainvars, useMultiThreading_,
                   patchesUploaded_, shouldClose, nextPatch, draws>>

\* cleanup() has returned: the members of the application are destroyed,
\* renderThread_ among them
AppCleanup ==
    /\ apppc = "cleanup"
    /\ AppCall("destructor")
    /\ apppc' = "destroyed"
    /\ UNCHANGED <<sizevars, monitorvars, terrainvars, useMultiThreading_,
                   patchesUploaded_, shouldClose, nextPatch, draws>>

\* main(): MultiThreadApp app(1280, 720);
AppInit ==
    /\ RenderThreadInit
    /\ SizeUnused
    /\ PerformanceMonitorInit
    /\ TerrainUnused
    /\ MultiThreadAppInit
    /\ apppc = "constructed"

\* the steps of the calls the application makes on renderThread_
AppMainStep ==
    \/ \E ok \in BOOLEAN : Initialize(ok)
    \/ Start
    \/ StopSignal
    \/ StopLock
    \/ StopNotify
    \/ StopJoin
    \/ StopCleanup
    \/ AppSubmitPatchUpload
    \/ SubmitNotify
    \/ WaitLock
    \/ WaitPred
    \/ WaitSleep
    \/ WaitReturn

AppNext ==
    \/ AppInitialize
    \/ AppStart
    \/ AppRun
    \/ AppSubmitPatchUploadWork
    \/ AppFrame
    \/ AppRender
    \/ \E keyEscape \in BOOLEAN, keyM \in BOOLEAN : AppHandleInput(keyEscape, keyM)
    \/ \E frameTimeMs \in FrameTimes : AppEndFrame(frameTimeMs)
    \/ AppCleanup
    \/ AppMainStep
    \/ WorkerStep
    \/ SpuriousWakeMain
    \/ SpuriousWakeWorker

AppSpec == AppInit /\ [][AppNext]_vars

\* ------------------------------------------------------------------------
\* Claims
\* ------------------------------------------------------------------------
\* C1: barrier correctness. When waitForCompletion() returns on a worker that
\* was started (once, and not stopped), every task submitted so far has been
\* completely processed: getProcessedTasks() equals the number of tasks
\* submitted and the worker is not inside processTask.
C1_BarrierCorrectness ==
    (mainpc = "wfc_return" /\ RunningOnce)
        => (processedTasks_ = Len(submitted) /\ ~InFlight)

\* C2: FIFO order. At every moment the sequence of tasks (and so of patch
\* identifiers) handed to processTask is a prefix of the sequence submitted.
C2_FifoOrder ==
    /\ IsPrefix(handed, submitted)
    /\ IsPrefix([i \in 1 .. Len(handed) |-> handed[i].patchId],
                [i \in 1 .. Len(submitted) |-> submitted[i].patchId])

\* C2 witness: two tasks with different patch identifiers have been handed to
\* processTask
C2_Witness ==
    /\ Len(handed) = 2
    /\ handed[1].patchId # handed[2].patchId

\* C3: no task is lost or duplicated. For a worker started at most once, every
\* task submitted so far is in exactly one place (in the queue, popped and in
\* flight, or counted in processedTasks_), the numbers add up, and no task is
\* handed to processTask twice.
C3_NoLossNoDuplication ==
    starts <= 1 =>
        /\ \A u \in 1 .. Len(submitted) :
              B2N(InQueue(u)) + B2N(IsCurrent(u)) + B2N(Done(u)) = 1
        /\ Len(submitted) = Len(taskQueue_) + B2N(InFlight) + processedTasks_
        /\ processedTasks_ = Cardinality({u \in 1 .. Len(submitted) : Done(u)})
        /\ \A i, j \in 1 .. Len(handed) : handed[i].uid = handed[j].uid => i = j
        /\ \A i \in 1 .. Len(taskQueue_) : ~WasHanded(taskQueue_[i].uid)

\* C3 witness: one task counted, one in flight and one still queued, or, with
\* two tasks, one counted and one in flight
C3_Witness ==
    /\ starts = 1
    /\ processedTasks_ >= 1
    /\ InFlight
    /\ Len(submitted) = processedTasks_ + 1 + Len(taskQueue_)

\* C4: every task submitted to a running worker is eventually processed unless
\* stop() is called: a task that is in the queue of a running worker leads to
\* that task having been through processTask and counted, or to the stop signal.
C4_SubmittedEventuallyProcessed ==
    \A u \in 1 .. MaxTasks :
        (InQueue(u) /\ isRunning_ /\ ~shouldStop_) ~> (Done(u) \/ shouldStop_)

\* C4 witness: the worker processed a task, blocked on the empty-queue wait and
\* has been woken for a task submitted meanwhile
C4_Witness ==
    /\ RunningOnce
    /\ workerpc = "wake"
    /\ processedTasks_ = 1
    /\ Len(taskQueue_) = 1
    /\ mainpc = "idle"

\* C5: a waitForCompletion() that found the queue non-empty and blocks on a
\* running worker eventually returns.
C5_WaitEventuallyReturns ==
    (mainpc \in {"wfc_sleep", "wfc_blocked"} /\ isRunning_) ~> (mainpc = "wfc_return")

\* C5 witness: the waiter blocked on a non-empty queue and was woken after the
\* running worker emptied the queue and counted every task
C5_Witness ==
    /\ RunningOnce
    /\ mainpc = "wfc_wake"
    /\ taskQueue_ = << >>
    /\ processedTasks_ = Len(submitted)
    /\ processedTasks_ >= 1
    /\ workerpc = "loopCheck"

\* C6: stop() is idempotent. A stop() called directly after a stop() returned
\* returns at once and changes nothing; no auxiliary context is ever destroyed
\* twice and no worker thread is ever joined twice.
C6_StopIdempotent ==
    /\ [](\A c \in CtxIds : ctxDestroyed[c] <= 1)
    /\ [](threads >= 0)
    /\ [][(mainpc = "stop" /\ lastRet = "stop")
            => /\ mainpc' \in {"idle", "destroyed"}
               /\ UNCHANGED <<progvars, workerpc, task, ctxDestroyed, ctxCreated,
                              currentCtx, uploads, submitted, handed, threads,
                              starts, lastRet>>]_vars

\* C6 witness: the destructor calls stop() directly after an explicit stop() has
\* returned, which had joined the worker and destroyed the context
C6_Witness ==
    /\ mainpc = "stop"
    /\ dtor
    /\ lastRet = "stop"
    /\ \E c \in CtxIds : ctxDestroyed[c] = 1
    /\ starts >= 1
    /\ threads = 0

\* C7: stop() called on a running worker always returns, with the worker
\* thread out of its loop and joined.
C7_StopReturns ==
    (mainpc = "stop" /\ isRunning_)
        ~> (mainpc \in {"idle", "destroyed"} /\ ~isRunning_ /\ workerpc = "none")

\* C7 witness: the stop signal was set while the worker was blocked on the
\* empty-queue wait, and the notification has woken it
C7_Witness ==
    /\ mainpc = "stop_join"
    /\ shouldStop_
    /\ workerpc = "wake"
    /\ taskQueue_ = << >>

\* C8: once stop() has set the stop signal the worker starts no further task:
\* no task leaves the queue while shouldStop_ is set.
C8_NoTaskStartsAfterStopSignal ==
    [][(shouldStop_ /\ shouldStop_') => Len(taskQueue_') >= Len(taskQueue_)]_vars

\* C9: a worker thread only ever runs with a live auxiliary context, one that a
\* successful initialize() created and stop() has not destroyed.
C9_WorkerHasLiveContext ==
    workerpc # "none" => (workerContext_ # 0 /\ ctxDestroyed[workerContext_] = 0)

\* C10: initialize() and start() on a running worker are reported no-ops.
\* initialize() returns false and leaves the context alone; start() spawns no
\* thread and leaves the counter, the stop signal and the queue alone; there is
\* never more than one worker thread.
C10_RunningNoOps ==
    /\ [](threads <= 1)
    /\ [][(mainpc = "initialize" /\ mainpc' # "initialize" /\ isRunning_)
            => /\ lastRet' = "initialize:false"
               /\ UNCHANGED <<progvars, workerpc, ctxCreated, ctxDestroyed,
                              threads, starts>>]_vars
    /\ [][(mainpc = "start" /\ mainpc' # "start" /\ isRunning_)
            => UNCHANGED <<progvars, workerpc, ctxCreated, ctxDestroyed,
                           threads, starts>>]_vars

\* C10 witness: initialize() has just returned false on a running worker whose
\* context, counter and queue are as they were
C10_Witness ==
    /\ mainpc = "idle"
    /\ isRunning_
    /\ lastRet = "initialize:false"
    /\ workerContext_ # 0
    /\ processedTasks_ = 1
    /\ taskQueue_ # << >>

\* C11: the worker never holds queueMutex_ while it executes processTask (or
\* counts the task), so a submitTask / submitPatchUpload issued during an upload
\* finds the lock free and acquires it without waiting for the upload.
C11_NoLockAcrossProcessing ==
    /\ InFlight => queueMutex_ # "worker"
    /\ (InFlight /\ mainpc \in {"submitTask", "submitPatchUpload"})
          => queueMutex_ = "free"

\* C11 witness: a submitPatchUpload is issued while the worker is inside
\* processTask on an upload task
C11_Witness ==
    /\ workerpc = "process"
    /\ task.type = "UPLOAD_PATCH"
    /\ mainpc = "submitPatchUpload"
    /\ queueMutex_ = "free"

\* a thread is at a statement that reads taskQueue_ (empty())
MainReadsQueue == mainpc = "wfc_pred"
\* the worker is at a statement that reads or modifies taskQueue_
WorkerAccessesQueue == workerpc \in {"waitPred", "innerCheck", "pop", "checkEmpty"}

\* C12: every access to taskQueue_ is made while holding queueMutex_: a thread
\* that is at a statement reading or modifying the queue owns the lock, and no
\* state has the main thread reading the queue while the worker modifies it.
C12_QueueAccessUnderLock ==
    /\ MainReadsQueue => queueMutex_ = "main"
    /\ WorkerAccessesQueue => queueMutex_ = "worker"
    /\ ~(MainReadsQueue /\ workerpc = "pop")

\* C15: the worker uploads the submitted bytes verbatim: every uploadPatchData
\* call is made with the vertexData and the indexData reference that were
\* handed to submitPatchUpload for that patch (the patch's vertex array and the
\* patch's index array).
C15_UploadVerbatim ==
    \A i \in 1 .. Len(uploads) :
        /\ uploads[i].vertexData = VertexPtr(uploads[i].patchId)
        /\ uploads[i].indexData = IndexPtr(uploads[i].patchId)

\* C14: an upload task carries both byte lengths without ambiguity: for every
\* pair (vertexSize, indexSize) of size_t values handed to submitPatchUpload,
\* the vertexSize and indexSize processTask decodes and hands to uploadPatchData
\* are the submitted ones.
C14_SizesRoundTrip ==
    sizepc = "done" =>
        /\ Len(sizeUpload) = 1
        /\ sizeUpload[1].vertexSize = argSizes.vertexSize
        /\ sizeUpload[1].indexSize = argSizes.indexSize

\* the last n elements of a sequence
LastN(q, n) == SubSeq(q, Len(q) - n + 1, Len(q))

\* C19: the frame-time history is a rolling window of the last FRAME_HISTORY_SIZE
\* measured frame times: after k >= 1 endFrame() calls since construction or
\* the last reset() it holds exactly the last min(k, FRAME_HISTORY_SIZE)
\* measured frame times, in order, and the reported average frame time is the
\* mean of exactly those values.
C19_RollingWindow ==
    LET k == Len(measured)
        n == IF k < FRAME_HISTORY_SIZE THEN k ELSE FRAME_HISTORY_SIZE
    IN k >= 1 =>
         /\ frameTimeHistory_ = LastN(measured, n)
         /\ metrics_.frameTime.num * n
               = SumSeq(LastN(measured, n)) * metrics_.frameTime.den

\* C20: between two reset() calls no cumulative counter decreases: every step
\* that is not a reset() leaves drawCalls, trianglesDrawn, verticesDrawn,
\* memoryUsage, vboMemory and textureMemory at least as large as they were.
C20_CountersMonotone ==
    [][~Reset =>
         /\ metrics_'.drawCalls >= metrics_.drawCalls
         /\ metrics_'.trianglesDrawn >= metrics_.trianglesDrawn
         /\ metrics_'.verticesDrawn >= metrics_.verticesDrawn
         /\ metrics_'.memoryUsage >= metrics_.memoryUsage
         /\ metrics_'.vboMemory >= metrics_.vboMemory
         /\ metrics_'.textureMemory >= metrics_.textureMemory]_vars

\* the integer square root
ISqrt(n) == CHOOSE r \in 0 .. n : r * r <= n /\ (r + 1) * (r + 1) > n

\* C16: for every gridSize > 0 and every perfect-square patchCount > 0, terrain
\* generation produces exactly patchCount patches, each with
\* (cellsPerPatch + 1)^2 vertices and cellsPerPatch^2 * 6 indices, where
\* cellsPerPatch = gridSize / sqrt(patchCount) in integer division.
C16_PatchCounts ==
    (terrainpc = "generated" /\ gridSize_ > 0 /\ patchCount > 0
       /\ ISqrt(patchCount) * ISqrt(patchCount) = patchCount)
    => LET cellsPerPatch == gridSize_ \div ISqrt(patchCount)
       IN /\ Len(patches_) = patchCount
          /\ \A n \in 1 .. Len(patches_) :
                /\ Len(patches_[n].vertices) = (cellsPerPatch + 1) * (cellsPerPatch + 1)
                /\ Len(patches_[n].indices) = cellsPerPatch * cellsPerPatch * 6

\* C17: an invalid configuration is rejected before generation: when the grid
\* size or the patch count is <= 0, generateTerrain() leaves the patch list as
\* it was (empty), and exposes no patch without vertices or without triangles.
C17_InvalidConfigurationRejected ==
    (terrainpc = "generated" /\ (gridSize_ <= 0 \/ patchCount <= 0))
    => /\ patches_ = << >>
       /\ \A n \in 1 .. Len(patches_) :
             Len(patches_[n].vertices) > 0 /\ Len(patches_[n].indices) >= 3

\* C18: height bound: every vertex of every generated patch has a height of
\* absolute value at most heightScale, i.e. the noise value is within [-1, 1].
C18_HeightBound ==
    \A n \in 1 .. Len(patches_) :
        \A k \in 1 .. Len(patches_[n].vertices) :
            LET y == patches_[n].vertices[k].y
            IN Abs(y.num) <= heightScale_ * y.den

\* C13: in multithreaded mode, once the worker has processed the upload task of
\* patch i and waitForCompletion() has returned, render() draws patch i, from
\* buffers the main thread did not create (every render() call is recorded in
\* draws with the patches the worker had uploaded when its patch loop began)
C13_DrawsWorkerUploads ==
    \A f \in DOMAIN draws : \A i \in PatchIds :
        (draws[f].mt /\ i \in draws[f].uploaded)
            => (i \in draws[f].drawn /\ i \notin draws[f].mainUploaded)

\* C21: once stop() or the destructor has returned, every auxiliary context this
\* RenderThread created has been destroyed, whatever sequence of initialize,
\* start and stop calls came before
C21_ContextTornDownAtStop ==
    lastRet = "stop" => \A c \in 1 .. ctxCreated : ctxDestroyed[c] >= 1

\* the worker thread is between its glfwMakeContextCurrent(workerContext_) and
\* its glfwMakeContextCurrent(nullptr)
WorkerInLoop == workerpc \notin {"none", "makeCurrent", "done"}

\* C22: from the entry of the worker's loop to its exit the auxiliary context is
\* current on the worker thread, so every processTask runs with it current; it
\* is current at no other time, and a context is destroyed only when the worker
\* has detached it and been joined
C22_ContextOrdering ==
    /\ WorkerInLoop => (currentCtx # 0 /\ currentCtx = workerContext_)
    /\ ~WorkerInLoop => currentCtx = 0
    /\ \A c \in CtxIds : ctxDestroyed[c] > 0 => (currentCtx # c /\ ~(WorkerInLoop /\ workerContext_ = c))

\* C23: a generated patch of c x c cells (c >= 0) stores its vertices row by row
\* on a (c+1) x (c+1) lattice, and its index list is, quad by quad in row-major
\* order with topLeft = z*(c+1)+x and bottomLeft = topLeft + c + 1, the six
\* indices (topLeft, bottomLeft, topRight, topRight, bottomLeft, bottomRight);
\* every index is below (c+1)^2 and there are 6*c^2 of them
C23_IndexGeneration ==
    \A n \in 1 .. Len(patches_) :
        LET patch == patches_[n]
            c == patch.patchSize
        IN c >= 0 =>
            /\ Len(patch.vertices) = (c + 1) * (c + 1)
            /\ \A x \in 0 .. c, z \in 0 .. c :
                  LET v == patch.vertices[z * (c + 1) + x + 1]
                  IN v.x = (patch.startX + x) * patchSize_
                     /\ v.z = (patch.startZ + z) * patchSize_
            /\ Len(patch.indices) = 6 * c * c
            /\ \A j \in 1 .. Len(patch.indices) : patch.indices[j] < (c + 1) * (c + 1)
            /\ \A x \in 0 .. (c - 1), z \in 0 .. (c - 1) :
                  LET first == 6 * (z * c + x)
                      topLeft == z * (c + 1) + x
                      bottomLeft == topLeft + c + 1
                  IN SubSeq(patch.indices, first + 1, first + 6)
                       = << topLeft, bottomLeft, topLeft + 1,
                            topLeft + 1, bottomLeft, bottomLeft + 1 >>

\* a terrain whose patches have several rows of quads has been generated
C23_Witness ==
    /\ terrainpc = "generated"
    /\ \E n \in 1 .. Len(patches_) :
          patches_[n].patchSize >= 2 /\ Len(patches_[n].indices) = 24

\* the smallest and the largest element of a non-empty sequence of numbers
SeqMin(q) == CHOOSE m \in {q[i] : i \in DOMAIN q} : \A i \in DOMAIN q : m <= q[i]
SeqMax(q) == CHOOSE m \in {q[i] : i \in DOMAIN q} : \A i \in DOMAIN q : m >= q[i]

\* C24: after at least one endFrame() since construction or the last reset(),
\* minFrameTime is the minimum and maxFrameTime the maximum of all the frame
\* times measured since then, and whenever the window holds only measured
\* values the average frame time lies between the two
C24_MinMaxFrameTime ==
    Len(measured) >= 1 =>
        /\ metrics_.minFrameTime = SeqMin(measured)
        /\ metrics_.maxFrameTime = SeqMax(measured)
        /\ (Len(frameTimeHistory_) <= Len(measured)
              /\ frameTimeHistory_ = LastN(measured, Len(frameTimeHistory_)))
           => /\ metrics_.minFrameTime * metrics_.frameTime.den <= metrics_.frameTime.num
              /\ metrics_.frameTime.num <= metrics_.maxFrameTime * metrics_.frameTime.den

\* C25: while multithreading is enabled the main thread creates no upload-related
\* device objects: no step taken with useMultiThreading_ set changes a patch's
\* handles or upload state or counts a main-thread upload; only the worker's
\* uploadPatchData calls are added
C25_WorkerOnlyCreation ==
    [][(useMultiThreading_ /\ apppc # "constructed")
         => (patches_' = patches_ /\ patchesUploaded_' = patchesUploaded_
             /\ metrics_'.vboMemory = metrics_.vboMemory)]_vars

\* a frame has been rendered in multithreaded mode after the worker's upload,
\* with a patch the main thread has not uploaded
C25_Witness ==
    \E f \in DOMAIN draws :
        /\ draws[f].mt
        /\ draws[f].uploaded # {}
        /\ \E i \in PatchIds : i \notin draws[f].mainUploaded

\* C26: the barrier waitForCompletion() does provide. When it returns on a worker
\* that was started (once, and not stopped), the queue is empty and at most one
\* task is still in flight: getProcessedTasks() is at least the number of tasks
\* submitted less one, and every task but possibly the last submitted one has
\* been through processTask and counted
C26_WeakBarrier ==
    (mainpc = "wfc_return" /\ RunningOnce)
        => /\ taskQueue_ = << >>
           /\ processedTasks_ >= Len(submitted) - 1
           /\ \A u \in 1 .. (Len(submitted) - 1) : Done(u)

\* waitForCompletion() returns after two submissions while the worker is still
\* inside processTask on the second task
C26_Witness ==
    /\ mainpc = "wfc_return"
    /\ RunningOnce
    /\ Len(submitted) = 2
    /\ processedTasks_ = 1
    /\ IsCurrent(2)

\* C27: waitForCompletion() never blocks forever: every call eventually returns,
\* whatever the state of the worker, also when no worker was ever started and
\* when stop() made the worker exit with tasks still queued
C27_WaitNeverBlocksForever ==
    (mainpc = "waitForCompletion") ~> (mainpc = "wfc_return")

\* the number of times the vertex-array, vertex-buffer and index-buffer objects
\* of patch i have been created: by the worker's uploadPatchData calls and by
\* the main thread's uploadPatchToGPU, which marks the patch uploaded
CreationsOf(i) ==
    Cardinality({k \in DOMAIN uploads : uploads[k].patchId = i})
      + (IF (i + 1) \in DOMAIN patches_ /\ patches_[i + 1].isUploaded THEN 1 ELSE 0)

\* C28: over the whole run of the application the device objects of every patch
\* are created at most once in total across the worker thread and the main
\* thread, for any sequence of frames and any toggling of the multithreading
\* switch
C28_CreatedAtMostOnce ==
    \A i \in PatchIds : CreationsOf(i) <= 1

\* the triangles and the vertices of the patches render() call f drew
TrianglesOfDraw(f) ==
    SumSeq([k \in DOMAIN patches_ |->
              IF (k - 1) \in draws[f].drawn THEN Len(patches_[k].indices) \div 3 ELSE 0])
VerticesOfDraw(f) ==
    SumSeq([k \in DOMAIN patches_ |->
              IF (k - 1) \in draws[f].drawn THEN Len(patches_[k].vertices) ELSE 0])

\* C29: after any number of frames, in either threading mode, drawCalls is the
\* number of indexed draws renderPatch issued, and trianglesDrawn and
\* verticesDrawn count the triangles and vertices of the patches that were
\* drawn, a patch being drawn only when it is uploaded
C29_CountersCountRealDraws ==
    /\ metrics_.drawCalls = SumSeq([f \in DOMAIN draws |-> Cardinality(draws[f].drawn)])
    /\ metrics_.trianglesDrawn = SumSeq([f \in DOMAIN draws |-> TrianglesOfDraw(f)])
    /\ metrics_.verticesDrawn = SumSeq([f \in DOMAIN draws |-> VerticesOfDraw(f)])

\* the patches whose cell range holds grid cell (x, z)
PatchesOfCell(x, z) ==
    {n \in DOMAIN patches_ :
        /\ patches_[n].startX <= x /\ x < patches_[n].startX + patches_[n].patchSize
        /\ patches_[n].startZ <= z /\ z < patches_[n].startZ + patches_[n].patchSize}

\* the vertex of patch n at lattice position (x, z) of the grid
VertexAt(n, x, z) ==
    patches_[n].vertices[(z - patches_[n].startZ) * (patches_[n].patchSize + 1)
                           + (x - patches_[n].startX) + 1]

\* C30: for every gridSize > 0 the patches generated tile the whole grid: every
\* grid cell (x, z) with 0 <= x, z < gridSize lies in the cell range of exactly
\* one patch, and two patches next to each other in a row hold the same
\* vertices on the edge they share
C30_PatchesTileGrid ==
    (terrainpc = "generated" /\ gridSize_ > 0) =>
        /\ \A x \in 0 .. (gridSize_ - 1), z \in 0 .. (gridSize_ - 1) :
              Cardinality(PatchesOfCell(x, z)) = 1
        /\ \A n \in DOMAIN patches_ :
              (n % patchesPerRow # 0) =>
                 LET edge == patches_[n].startX + patches_[n].patchSize
                 IN /\ patches_[n + 1].startX = edge
                    /\ \A z \in patches_[n].startZ ..
                                  (patches_[n].startZ + patches_[n].patchSize) :
                          VertexAt(n, edge, z) = VertexAt(n + 1, edge, z)

====
